---- MODULE Spec2Model ----
(***************************************************************************)
(* poramorshok-ai: the subscription usage gate and the nearby-hospital     *)
(* search.                                                                 *)
(*                                                                         *)
(* Two implementations of the gate live in the repository and never share  *)
(* state (different storage keys, different React state):                  *)
(*   - the context provider, src/contexts/SubscriptionContext.tsx          *)
(*     (plan, nearbyUsageCount, nearbyUsageResetDate; key "subscription"); *)
(*   - the hook, src/unnamed/part_001 (plan, nearbyUsageCount,             *)
(*     nearbyUsageLimit; key "subscription_state"), used by the Nearby     *)
(*     component, src/components/Nearby.tsx.                               *)
(* A behaviour follows one of them (variable `variant`), so the state      *)
(* space is the sum of the two, not their product.                         *)
(*                                                                         *)
(* The proxy server, src/server/server.js, is a process of its own; a       *)
(* third kind of behaviour follows its requests.  Two more kinds follow    *)
(* two tabs of one browser, each with its own instance of the provider or  *)
(* of the hook, on the one localStorage item.                              *)
(*                                                                         *)
(* React: a handler runs to completion, then React commits (re-render,     *)
(* memo recomputation, effects).  One action is one event: the handler,    *)
(* and the commit with its save effect when the handler set state.         *)
(***************************************************************************)
EXTENDS Integers, FiniteSets, Sequences, TLC

VARIABLES
    variant,        \* "provider" | "providerBatch" | "hook" | "server" |
                    \* "providerTabs" | "hookTabs": what this behaviour runs
    now,            \* wall clock: the instant `new Date()` returns, in ticks
    pMounted,       \* SubscriptionProvider is mounted
    pState,         \* SubscriptionProvider: subscriptionState
    pCanUse,        \* SubscriptionProvider: the memoised canUseNearby
    pRemaining,     \* SubscriptionProvider: the memoised nearbyUsageRemaining
    pStore,         \* localStorage["subscription"]
    op,             \* the handler the last step ran
    ret,            \* the value the last gating call returned
    run,            \* history: gating calls made in a row since the state was fresh
    hMounted,       \* the Nearby component (and its useSubscription hook) is mounted
    hState,         \* useSubscription hook: subscriptionState
    hStore,         \* localStorage["subscription_state"]
    stage,          \* Nearby: "idle" | "locating" | "fetching"
    error,          \* Nearby: the error message ("" when none)
    hospitals,      \* Nearby: the hospital list, as [src, n]
    problem,        \* Nearby: the problem text is non-empty
    keywords,       \* Nearby: the number of derived keywords shown
    showPlanModal,  \* Nearby: the plan modal is open
    advice,         \* Nearby: the advice slot: "null", or the search it belongs to
    adviceInFlight, \* emergency-advice requests not settled yet, by search
    pc,             \* the await the running search is suspended at ("none" when none)
    search,         \* what the running search closed over: [problem, kw, pos]
    calls,          \* history: the requests the last search issued, and where
    srv,            \* proxy server: the requests to GET /api/nearby-hospitals
    tabs,           \* two browser tabs on one localStorage: each tab's instance
    saved           \* history: the state the save effect last wrote (JsNull: none)

provVars == <<pMounted, pState, pCanUse, pRemaining, pStore, run>>
hookVars == <<hMounted, hState, hStore, saved>>
nearbyVars == <<stage, error, hospitals, problem, keywords, showPlanModal, advice,
                adviceInFlight, pc, search, calls>>
vars == <<variant, now, pMounted, pState, pCanUse, pRemaining, pStore, op, ret, run,
          hMounted, hState, hStore, stage, error, hospitals, problem, keywords,
          showPlanModal, advice, adviceInFlight, pc, search, calls, saved, srv, tabs>>

(***************************************************************************)
(* Bounds of the model.                                                    *)
(***************************************************************************)
TicksPerMonth == 2      \* instants told apart inside one calendar month
TzOffset == 1           \* local time = UTC + TzOffset ticks
StartMonth == 10        \* the behaviour starts in this month (0 = January) of year 0
Horizon == 5            \* the clock advances at most this many ticks
MaxRun == 7             \* the history counter stops here
MaxCount == 6           \* the hook's counter is followed up to this value
MaxResults == 1         \* a lookup returns at most this many hospitals
NumPositions == 2       \* the positions geolocation can report
NumRequests == 2        \* the requests the proxy server is followed through
MaxTabUses == 2         \* the uses one tab is followed through

(***************************************************************************)
(* Program constants.                                                      *)
(***************************************************************************)
NEARBY_USAGE_LIMIT == 5
MonthsPerYear == 12

StartNow == StartMonth * TicksPerMonth
MaxNow == StartNow + Horizon

(***************************************************************************)
(* Date: an instant is a number of ticks since the epoch (UTC).  The       *)
(* calendar getters read the local time; the Date(y, m, d) constructor     *)
(* takes local fields and carries a month of 12 into the next year; an ISO *)
(* string holds the UTC fields (month 1..12).                              *)
(***************************************************************************)
getFullYear(t) == ((t + TzOffset) \div TicksPerMonth) \div MonthsPerYear
getMonth(t) == ((t + TzOffset) \div TicksPerMonth) % MonthsPerYear

\* new Date(year, monthIndex, 1): the first instant of that local month
DateOfMonth(year, monthIndex) ==
    (year * MonthsPerYear + monthIndex) * TicksPerMonth - TzOffset

toISOString(t) ==
    [year  |-> (t \div TicksPerMonth) \div MonthsPerYear,
     month |-> ((t \div TicksPerMonth) % MonthsPerYear) + 1,
     tick  |-> t % TicksPerMonth]

\* new Date(isoString).getTime()
DateParse(iso) ==
    (iso.year * MonthsPerYear + (iso.month - 1)) * TicksPerMonth + iso.tick

\* what a date-valued property reads as when it is undefined (no ISO string has month 0)
InvalidDate == [year |-> 0, month |-> 0, tick |-> 0]

\* getMonthResetDate wrapping the month index without carrying into the year
getMonthResetDate_noCarry(t) ==
    LET nextMonth == DateOfMonth(getFullYear(t), (getMonth(t) + 1) % MonthsPerYear)
    IN  toISOString(nextMonth)

getMonthResetDate(t) ==
    LET nextMonth == DateOfMonth(getFullYear(t), getMonth(t) + 1)
    IN  toISOString(nextMonth)

\* new Date() >= new Date(resetDate); a comparison with an invalid date is false
isUsageExpired(resetDate, t) ==
    /\ resetDate # InvalidDate
    /\ t >= DateParse(resetDate)

(***************************************************************************)
(* JavaScript values.  A subscription object is a record of its fields and *)
(* the set `has` of the fields it really owns; a field it does not own     *)
(* reads as undefined and holds a fixed filler here.  JSON.parse can also  *)
(* return null or a number.                                                *)
(***************************************************************************)
Fields == {"plan", "nearbyUsageCount", "nearbyUsageResetDate", "nearbyUsageLimit"}

EmptyObject ==
    [kind |-> "object", has |-> {}, plan |-> "undefined", nearbyUsageCount |-> 0,
     nearbyUsageResetDate |-> InvalidDate, nearbyUsageLimit |-> 0]

JsNull == [EmptyObject EXCEPT !.kind = "null"]
JsNumber == [EmptyObject EXCEPT !.kind = "number"]

Has(s, f) == f \in s.has

\* { ...s }: the own properties of s; a number or null has none
Spread(s) == IF s.kind = "object" THEN s ELSE EmptyObject

\* { ...s, plan: p }
WithPlan(s, p) == [Spread(s) EXCEPT !.plan = p, !.has = @ \cup {"plan"}]
\* { ...s, nearbyUsageCount: n }
WithCount(s, n) ==
    [Spread(s) EXCEPT !.nearbyUsageCount = n, !.has = @ \cup {"nearbyUsageCount"}]
\* { ...s, nearbyUsageResetDate: d }
WithResetDate(s, d) ==
    [Spread(s) EXCEPT !.nearbyUsageResetDate = d, !.has = @ \cup {"nearbyUsageResetDate"}]

\* s.plan, s.nearbyUsageResetDate
PlanOf(s) == IF Has(s, "plan") THEN s.plan ELSE "undefined"
ResetDateOf(s) == IF Has(s, "nearbyUsageResetDate") THEN s.nearbyUsageResetDate ELSE InvalidDate

\* a JavaScript number: a finite integer, Infinity or NaN
Num(n) == [kind |-> "int", n |-> n]
Infinity == [kind |-> "Infinity", n |-> 0]
NaN == [kind |-> "NaN", n |-> 0]

(***************************************************************************)
(* localStorage: an item is absent, the empty string, text JSON.parse      *)
(* rejects, or the JSON text of a value.                                   *)
(***************************************************************************)
Absent == [kind |-> "absent", val |-> EmptyObject]
EmptyText == [kind |-> "empty", val |-> EmptyObject]
Garbage == [kind |-> "garbage", val |-> EmptyObject]

\* JSON.stringify(v): the text lists the properties v owns
JSONstringify(v) == [kind |-> "json", val |-> v]

\* `if (stored)`: null and "" are falsy
Truthy(item) == item.kind \in {"garbage", "json"}
\* JSON.parse(item) throws
ParseThrows(item) == item.kind = "garbage"
\* JSON.parse(item), when it does not throw
JSONparse(item) == item.val

(***************************************************************************)
(* SubscriptionProvider (src/contexts/SubscriptionContext.tsx)             *)
(***************************************************************************)
\* useState initial value
InitialSubscriptionState(t) ==
    [kind |-> "object", has |-> {"plan", "nearbyUsageCount", "nearbyUsageResetDate"},
     plan |-> "basic", nearbyUsageCount |-> 0,
     nearbyUsageResetDate |-> getMonthResetDate(t), nearbyUsageLimit |-> 0]

\* the load effect: [state: the state it leaves, removed: it removed the item]
LoadSubscription(item, state, t) ==
    IF ~Truthy(item) THEN [state |-> state, removed |-> FALSE]
    ELSE IF ParseThrows(item) THEN [state |-> state, removed |-> TRUE]
    ELSE LET parsed == JSONparse(item) IN
         IF parsed.kind = "null"      \* parsed.nearbyUsageResetDate throws a TypeError
         THEN [state |-> state, removed |-> TRUE]
         ELSE IF isUsageExpired(ResetDateOf(parsed), t)
         THEN [state |-> WithResetDate(WithCount(parsed, 0), getMonthResetDate(t)),
               removed |-> FALSE]
         ELSE [state |-> parsed, removed |-> FALSE]

\* the save effect writing the plan and the counter only
SaveSubscription_noResetDate(state) ==
    JSONstringify([state EXCEPT !.nearbyUsageResetDate = InvalidDate,
                                !.has = @ \ {"nearbyUsageResetDate"}])

\* the save effect
SaveSubscription(state) == JSONstringify(state)

canUseNearby(s, t) ==
    IF PlanOf(s) = "pro" THEN TRUE
    ELSE IF isUsageExpired(ResetDateOf(s), t) THEN TRUE
    ELSE Has(s, "nearbyUsageCount") /\ s.nearbyUsageCount < NEARBY_USAGE_LIMIT

nearbyUsageRemaining(s, t) ==
    IF PlanOf(s) = "pro" THEN Infinity
    ELSE IF isUsageExpired(ResetDateOf(s), t) THEN Num(NEARBY_USAGE_LIMIT)
    ELSE IF ~Has(s, "nearbyUsageCount") THEN NaN
    ELSE IF NEARBY_USAGE_LIMIT - s.nearbyUsageCount > 0
         THEN Num(NEARBY_USAGE_LIMIT - s.nearbyUsageCount)
         ELSE Num(0)

upgradeRequired(s, canUse) == PlanOf(s) = "basic" /\ ~canUse

\* useNearbyService with the limit test written <= instead of <
useNearbyService_limitInclusive(captured, prev, t) ==
    IF PlanOf(captured) = "pro"
    THEN [ret |-> TRUE, set |-> FALSE, next |-> prev]
    ELSE IF isUsageExpired(ResetDateOf(captured), t)
    THEN [ret |-> TRUE, set |-> TRUE,
          next |-> WithResetDate(WithCount(prev, 1), getMonthResetDate(t))]
    ELSE IF Has(captured, "nearbyUsageCount")
            /\ captured.nearbyUsageCount <= NEARBY_USAGE_LIMIT
    THEN [ret |-> TRUE, set |-> TRUE,
          next |-> WithCount(prev, prev.nearbyUsageCount + 1)]
    ELSE [ret |-> FALSE, set |-> FALSE, next |-> prev]

\* useNearbyService with the rollover branch keeping the old reset date
useNearbyService_staleResetDate(captured, prev, t) ==
    IF PlanOf(captured) = "pro"
    THEN [ret |-> TRUE, set |-> FALSE, next |-> prev]
    ELSE IF isUsageExpired(ResetDateOf(captured), t)
    THEN [ret |-> TRUE, set |-> TRUE, next |-> WithCount(prev, 1)]
    ELSE IF Has(captured, "nearbyUsageCount")
            /\ captured.nearbyUsageCount < NEARBY_USAGE_LIMIT
    THEN [ret |-> TRUE, set |-> TRUE,
          next |-> WithCount(prev, prev.nearbyUsageCount + 1)]
    ELSE [ret |-> FALSE, set |-> FALSE, next |-> prev]

\* useNearbyService: `captured` is the subscriptionState the callback closed over,
\* `prev` the state React hands to the updater.
\* [ret: the value returned, set: setSubscriptionState was called, next: the new state]
useNearbyService(captured, prev, t) ==
    IF PlanOf(captured) = "pro"
    THEN [ret |-> TRUE, set |-> FALSE, next |-> prev]
    ELSE IF isUsageExpired(ResetDateOf(captured), t)
    THEN [ret |-> TRUE, set |-> TRUE,
          next |-> WithResetDate(WithCount(prev, 1), getMonthResetDate(t))]
    ELSE IF Has(captured, "nearbyUsageCount")
            /\ captured.nearbyUsageCount < NEARBY_USAGE_LIMIT
    THEN [ret |-> TRUE, set |-> TRUE,
          next |-> WithCount(prev, prev.nearbyUsageCount + 1)]
    ELSE [ret |-> FALSE, set |-> FALSE, next |-> prev]

resetUsageCount(prev, t) == WithResetDate(WithCount(prev, 0), getMonthResetDate(t))
\* upgradeToPro resetting the counter as updatePlan does
upgradeToPro_resetsCount(prev) == WithCount(WithPlan(prev, "pro"), 0)

upgradeToPro(prev) == WithPlan(prev, "pro")
downgradeToBasic(prev) == WithPlan(prev, "basic")

(***************************************************************************)
(* History for the scenario "fresh state, then gating calls in a row".     *)
(***************************************************************************)
RunOff == [on |-> FALSE, n |-> 0, ok |-> 0]
RunStart == [on |-> TRUE, n |-> 0, ok |-> 0]

\* the fresh state {plan: basic, usageCount: 0} inside its usage period
Fresh(s, t) ==
    /\ s.kind = "object"
    /\ PlanOf(s) = "basic"
    /\ Has(s, "nearbyUsageCount") /\ s.nearbyUsageCount = 0
    /\ Has(s, "nearbyUsageResetDate") /\ ~isUsageExpired(s.nearbyUsageResetDate, t)

RunAfterOther(s, t) == IF Fresh(s, t) THEN RunStart ELSE RunOff

RunAfterUse(r, returned) ==
    IF r.on
    THEN [on |-> TRUE,
          n  |-> IF r.n < MaxRun THEN r.n + 1 ELSE r.n,
          ok |-> IF returned /\ r.ok < MaxRun THEN r.ok + 1 ELSE r.ok]
    ELSE RunOff

(***************************************************************************)
(* The records localStorage["subscription"] can hold when the provider     *)
(* mounts: nothing, text that is no subscription record, or a record an    *)
(* earlier session saved (in the running period or in an earlier one).     *)
(***************************************************************************)
SavedRecord(p, n, d) ==
    [kind |-> "object", has |-> {"plan", "nearbyUsageCount", "nearbyUsageResetDate"},
     plan |-> p, nearbyUsageCount |-> n, nearbyUsageResetDate |-> d,
     nearbyUsageLimit |-> 0]

SavedResetDates ==
    {getMonthResetDate(StartNow), getMonthResetDate(StartNow - TicksPerMonth)}

\* items that are no record of this program: nothing, "", unparseable text, and the
\* JSON texts of null, of a number and of an object without the fields
ForeignItems ==
    {Absent, EmptyText, Garbage,
     JSONstringify(JsNull), JSONstringify(JsNumber), JSONstringify(EmptyObject)}

ProviderSavedStates ==
    {SavedRecord(p, n, d) :
        p \in {"basic", "pro"}, n \in 0..NEARBY_USAGE_LIMIT, d \in SavedResetDates}

(***************************************************************************)
(* SubscriptionProvider: the events.                                       *)
(***************************************************************************)
\* the provider under a consumer whose handlers make one gating call per event, and
\* under one whose handler makes two
ProviderVariants == {"provider", "providerBatch"}

\* a commit after setSubscriptionState: re-render (the memos are recomputed because
\* subscriptionState changed) and the save effect
PCommit(next) ==
    /\ pState' = next
    /\ pCanUse' = canUseNearby(next, now)
    /\ pRemaining' = nearbyUsageRemaining(next, now)
    /\ pStore' = SaveSubscription(next)
    /\ saved' = next

\* mount: first render with the initial state, the load effect, the save effect, and
\* the re-render and second save when the load effect set the state
PMount ==
    /\ variant \in ProviderVariants
    /\ ~pMounted
    /\ LET initial == InitialSubscriptionState(now)
           loaded  == LoadSubscription(pStore, initial, now)
       IN  /\ PCommit(loaded.state)
           /\ run' = RunAfterOther(loaded.state, now)
    /\ pMounted' = TRUE
    /\ op' = "mount"
    /\ ret' = FALSE
    /\ UNCHANGED <<variant, srv, tabs, now, hMounted, hState, hStore, nearbyVars>>

\* the page is closed or reloaded: the state in memory is gone, the item stays
PUnmount ==
    /\ variant \in ProviderVariants
    /\ pMounted
    /\ pMounted' = FALSE
    /\ pState' = EmptyObject
    /\ pCanUse' = FALSE
    /\ pRemaining' = NaN
    /\ run' = RunOff
    /\ op' = "unmount"
    /\ ret' = FALSE
    /\ UNCHANGED <<variant, srv, tabs, now, pStore, saved, hMounted, hState, hStore, nearbyVars>>

UseNearbyService ==
    /\ variant \in ProviderVariants
    /\ pMounted
    /\ LET r == useNearbyService(pState, pState, now)
       IN  /\ ret' = r.ret
           /\ run' = RunAfterUse(run, r.ret)
           /\ IF r.set
              THEN PCommit(r.next)
              ELSE UNCHANGED <<pState, pCanUse, pRemaining, pStore, saved>>
    /\ op' = "useNearbyService"
    /\ UNCHANGED <<variant, srv, tabs, now, pMounted, hMounted, hState, hStore, nearbyVars>>

\* an event handler that calls useNearbyService twice: both calls run in the closure
\* of one render, so both read the subscriptionState captured there; React queues
\* their updaters and hands each the state the one before produced, then renders once
UseNearbyServiceTwice ==
    /\ variant = "providerBatch"
    /\ pMounted
    /\ LET first  == useNearbyService(pState, pState, now)
           second == useNearbyService(pState, first.next, now)
       IN  /\ ret' = (first.ret /\ second.ret)
           /\ IF first.set \/ second.set
              THEN PCommit(second.next)
              ELSE UNCHANGED <<pState, pCanUse, pRemaining, pStore, saved>>
    /\ run' = RunOff
    /\ op' = "useNearbyServiceTwice"
    /\ UNCHANGED <<variant, srv, tabs, now, pMounted, hMounted, hState, hStore, nearbyVars>>

ResetUsageCount ==
    /\ variant \in ProviderVariants
    /\ pMounted
    /\ PCommit(resetUsageCount(pState, now))
    /\ run' = RunAfterOther(resetUsageCount(pState, now), now)
    /\ op' = "resetUsageCount"
    /\ ret' = FALSE
    /\ UNCHANGED <<variant, srv, tabs, now, pMounted, hMounted, hState, hStore, nearbyVars>>

UpgradeToPro ==
    /\ variant \in ProviderVariants
    /\ pMounted
    /\ PCommit(upgradeToPro(pState))
    /\ run' = RunAfterOther(upgradeToPro(pState), now)
    /\ op' = "upgradeToPro"
    /\ ret' = FALSE
    /\ UNCHANGED <<variant, srv, tabs, now, pMounted, hMounted, hState, hStore, nearbyVars>>

DowngradeToBasic ==
    /\ variant \in ProviderVariants
    /\ pMounted
    /\ PCommit(downgradeToBasic(pState))
    /\ run' = RunAfterOther(downgradeToBasic(pState), now)
    /\ op' = "downgradeToBasic"
    /\ ret' = FALSE
    /\ UNCHANGED <<variant, srv, tabs, now, pMounted, hMounted, hState, hStore, nearbyVars>>

\* time passes; nothing re-renders, so the memos keep their values
Tick ==
    /\ variant \in ProviderVariants       \* the hook variant never reads the clock
    /\ now < MaxNow
    /\ now' = now + 1
    /\ run' = IF run.on /\ isUsageExpired(ResetDateOf(pState), now + 1)
              THEN RunOff ELSE run
    /\ op' = "tick"
    /\ ret' = FALSE
    /\ UNCHANGED <<variant, srv, tabs, pMounted, pState, pCanUse, pRemaining, pStore, saved,
                   hMounted, hState, hStore, nearbyVars>>

(***************************************************************************)
(* useSubscription hook (src/unnamed/part_001)                             *)
(***************************************************************************)
DEFAULT_SUBSCRIPTION_STATE ==
    [kind |-> "object", has |-> {"plan", "nearbyUsageCount", "nearbyUsageLimit"},
     plan |-> "basic", nearbyUsageCount |-> 0, nearbyUsageResetDate |-> InvalidDate,
     nearbyUsageLimit |-> 5]

\* { ...a, ...b }: b's own properties over a's
Merge(a, b) ==
    LET x == Spread(a)
        y == Spread(b)
    IN  [kind |-> "object",
         has |-> x.has \cup y.has,
         plan |-> IF Has(y, "plan") THEN y.plan ELSE x.plan,
         nearbyUsageCount |->
             IF Has(y, "nearbyUsageCount") THEN y.nearbyUsageCount ELSE x.nearbyUsageCount,
         nearbyUsageResetDate |->
             IF Has(y, "nearbyUsageResetDate") THEN y.nearbyUsageResetDate
             ELSE x.nearbyUsageResetDate,
         nearbyUsageLimit |->
             IF Has(y, "nearbyUsageLimit") THEN y.nearbyUsageLimit ELSE x.nearbyUsageLimit]

\* the useState initialiser
HookInitialState(item) ==
    IF Truthy(item) /\ ~ParseThrows(item)
    THEN Merge(DEFAULT_SUBSCRIPTION_STATE, JSONparse(item))
    ELSE DEFAULT_SUBSCRIPTION_STATE

\* the save effect
HookSave(state) == JSONstringify(state)

updatePlan(prev, plan) == WithCount(WithPlan(prev, plan), 0)

\* incrementNearbyUsage counting a search twice
incrementNearbyUsage_twice(prev) == WithCount(prev, prev.nearbyUsageCount + 2)

incrementNearbyUsage(prev) == WithCount(prev, prev.nearbyUsageCount + 1)

HookCanUseNearby(s) ==
    \/ PlanOf(s) = "pro"
    \/ /\ Has(s, "nearbyUsageCount") /\ Has(s, "nearbyUsageLimit")
       /\ s.nearbyUsageCount < s.nearbyUsageLimit

getRemainingNearbyUses(s) ==
    IF PlanOf(s) = "pro" THEN Infinity
    ELSE IF ~(Has(s, "nearbyUsageCount") /\ Has(s, "nearbyUsageLimit")) THEN NaN
    ELSE IF s.nearbyUsageLimit - s.nearbyUsageCount > 0
         THEN Num(s.nearbyUsageLimit - s.nearbyUsageCount)
         ELSE Num(0)

\* the records localStorage["subscription_state"] can hold when the hook mounts
HookRecord(p, n) ==
    [DEFAULT_SUBSCRIPTION_STATE EXCEPT !.plan = p, !.nearbyUsageCount = n]

HookSavedStates ==
    {HookRecord(p, n) : p \in {"basic", "pro"}, n \in 0..NEARBY_USAGE_LIMIT}

(***************************************************************************)
(* Nearby component (src/components/Nearby.tsx)                            *)
(***************************************************************************)
NoHospitals == [src |-> "none", n |-> 0]
NoPosition == 0
Positions == 1..NumPositions
NoSearch == [problem |-> FALSE, kw |-> FALSE, pos |-> NoPosition]
NoCalls == [geo |-> 0, classify |-> 0, proxy |-> 0, fallback |-> 0,
            proxyAt |-> NoPosition, fallbackAt |-> NoPosition,
            primary |-> "none", primaryN |-> 0, secondary |-> "none", secondaryN |-> 0]

\* fetch(`.../api/nearby-hospitals?lat=${latitude}&lon=${longitude}${query}`)
FetchProxy(c, s) == [c EXCEPT !.proxy = @ + 1, !.proxyAt = s.pos]

\* findNearbyHospitals(latitude, longitude, language)
CallFallback(c, s) == [c EXCEPT !.fallback = @ + 1, !.fallbackAt = s.pos]

\* the success callback has returned: its latitude and longitude are gone
Returned(c) == [c EXCEPT !.proxyAt = NoPosition, !.fallbackAt = NoPosition]

isBusy == stage # "idle"

\* a commit after the hook's state changed: re-render and the save effect
HCommit(next) ==
    /\ hState' = next
    /\ hStore' = HookSave(next)
    /\ saved' = next

NearbyInitial ==
    /\ stage' = "idle"
    /\ error' = ""
    /\ hospitals' = NoHospitals
    /\ problem' = FALSE
    /\ keywords' = 0
    /\ showPlanModal' = FALSE
    /\ advice' = "null"
    /\ adviceInFlight' = {}
    /\ pc' = "none"
    /\ search' = NoSearch
    /\ calls' = NoCalls

\* mount: the hook's initialiser reads the item, the save effect writes the state
HMount ==
    /\ variant = "hook"
    /\ ~hMounted
    /\ hMounted' = TRUE
    /\ HCommit(HookInitialState(hStore))
    /\ NearbyInitial
    /\ op' = "mount"
    /\ UNCHANGED <<variant, srv, tabs, now, provVars, ret>>

\* unmount (also in the middle of a search: what is still in flight then sets the
\* state of an unmounted component, which does nothing)
HUnmount ==
    /\ variant = "hook"
    /\ hMounted
    /\ hMounted' = FALSE
    /\ hState' = EmptyObject
    /\ NearbyInitial
    /\ op' = "unmount"
    /\ UNCHANGED <<variant, srv, tabs, now, provVars, ret, hStore, saved>>

UpdatePlan ==
    /\ variant = "hook"
    /\ hMounted
    /\ \E plan \in {"basic", "pro"} :
         /\ HCommit(updatePlan(hState, plan))
         /\ op' = IF plan = "pro" THEN "updatePlan(pro)" ELSE "updatePlan(basic)"
    /\ UNCHANGED <<variant, srv, tabs, now, provVars, ret, hMounted, nearbyVars>>

SetProblem ==
    /\ variant = "hook"
    /\ hMounted
    /\ problem' = ~problem
    /\ op' = "setProblem"
    /\ UNCHANGED <<variant, srv, tabs, now, provVars, ret, hookVars, stage, error, hospitals,
                   keywords, showPlanModal, advice, adviceInFlight, pc, search, calls>>

\* the modal's buttons: open (lines 265, 334), close (lines 138, 153)
SetShowPlanModal ==
    /\ variant = "hook"
    /\ hMounted
    /\ showPlanModal' = ~showPlanModal
    /\ op' = "setShowPlanModal"
    /\ UNCHANGED <<variant, srv, tabs, now, provVars, ret, hookVars, stage, error, hospitals,
                   problem, keywords, advice, adviceInFlight, pc, search, calls>>

\* handleFind without setHospitals([]): the list of the search before stays
HandleFind_keepsHospitals ==
    /\ variant = "hook"
    /\ hMounted
    /\ ~isBusy
    /\ HookCanUseNearby(hState)
    /\ hState.nearbyUsageCount < MaxCount
    /\ op' = "handleFind"
    /\ UNCHANGED <<hospitals, showPlanModal>>
    /\ advice' = IF advice = "null" THEN "null" ELSE "earlier"
    /\ adviceInFlight' = IF adviceInFlight = {} THEN {} ELSE {"earlier"}
    /\ \E geolocation \in BOOLEAN :
         IF ~geolocation
         THEN /\ error' = "unableToFetchLocation"
              /\ stage' = "idle"
              /\ pc' = "none"
              /\ search' = NoSearch
              /\ calls' = NoCalls
         ELSE /\ error' = ""
              /\ stage' = "locating"
              /\ pc' = "geo"
              /\ search' = [problem |-> problem, kw |-> FALSE, pos |-> NoPosition]
              /\ calls' = [NoCalls EXCEPT !.geo = 1]
    /\ UNCHANGED <<variant, srv, tabs, now, provVars, ret, hookVars, problem, keywords>>

\* handleFind without the subscription check, behind a button disabled only while
\* busy (the component of src/unnamed/part_000)
HandleFind_noGate ==
    /\ variant = "hook"
    /\ hMounted
    /\ ~isBusy
    /\ hState.nearbyUsageCount < MaxCount
    /\ op' = "handleFind"
    /\ hospitals' = NoHospitals
    /\ UNCHANGED showPlanModal
    /\ advice' = IF advice = "null" THEN "null" ELSE "earlier"
    /\ adviceInFlight' = IF adviceInFlight = {} THEN {} ELSE {"earlier"}
    /\ \E geolocation \in BOOLEAN :
         IF ~geolocation
         THEN /\ error' = "unableToFetchLocation"
              /\ stage' = "idle"
              /\ pc' = "none"
              /\ search' = NoSearch
              /\ calls' = NoCalls
         ELSE /\ error' = ""
              /\ stage' = "locating"
              /\ pc' = "geo"
              /\ search' = [problem |-> problem, kw |-> FALSE, pos |-> NoPosition]
              /\ calls' = [NoCalls EXCEPT !.geo = 1]
    /\ UNCHANGED <<variant, srv, tabs, now, provVars, ret, hookVars, problem, keywords>>

\* handleFind, up to navigator.geolocation.getCurrentPosition; the button that calls
\* it is disabled while isBusy || !canUseNearby()
HandleFind ==
    /\ variant = "hook"
    /\ hMounted
    /\ ~isBusy
    /\ HookCanUseNearby(hState)
    /\ hState.nearbyUsageCount < MaxCount
    /\ op' = "handleFind"
    /\ IF ~HookCanUseNearby(hState)
       THEN /\ showPlanModal' = TRUE
            /\ UNCHANGED <<stage, error, hospitals, advice, adviceInFlight, pc, search,
                           calls>>
       ELSE /\ hospitals' = NoHospitals
            /\ UNCHANGED showPlanModal
            \* an earlier search's advice, shown or still in flight, stays
            /\ advice' = IF advice = "null" THEN "null" ELSE "earlier"
            /\ adviceInFlight' = IF adviceInFlight = {} THEN {} ELSE {"earlier"}
            /\ \E geolocation \in BOOLEAN :
                 IF ~geolocation
                 THEN /\ error' = "unableToFetchLocation"
                      /\ stage' = "idle"
                      /\ pc' = "none"
                      /\ search' = NoSearch
                      /\ calls' = NoCalls
                 ELSE /\ error' = ""
                      /\ stage' = "locating"
                      /\ pc' = "geo"
                      /\ search' = [problem |-> problem, kw |-> FALSE,
                                    pos |-> NoPosition]
                      /\ calls' = [NoCalls EXCEPT !.geo = 1]
    /\ UNCHANGED <<variant, srv, tabs, now, provVars, ret, hookVars, problem, keywords>>

\* the success callback, up to its first await
GeoSuccess ==
    /\ pc = "geo"
    /\ stage' = "fetching"
    /\ \E coords \in Positions :
         LET closure == [search EXCEPT !.pos = coords]
         IN  /\ search' = closure
             /\ IF search.problem
                THEN /\ pc' = "classify"
                     /\ calls' = [calls EXCEPT !.classify = @ + 1]
                ELSE /\ pc' = "proxy"
                     /\ calls' = FetchProxy(calls, closure)
    /\ op' = "geoSuccess"
    /\ UNCHANGED <<variant, srv, tabs, now, provVars, ret, hookVars, error, hospitals, problem,
                   keywords, showPlanModal, advice, adviceInFlight>>

\* the error callback
GeoError ==
    /\ pc = "geo"
    /\ \E denied \in BOOLEAN :
         error' = IF denied THEN "locationPermissionDenied" ELSE "unableToFetchLocation"
    /\ stage' = "idle"
    /\ pc' = "none"
    /\ search' = NoSearch
    /\ op' = "geoError"
    /\ UNCHANGED <<variant, srv, tabs, now, provVars, ret, hookVars, hospitals, problem, keywords,
                   showPlanModal, advice, adviceInFlight, calls>>

\* catch (e) { setError(t("noHospitalsFound")) } finally { setStage("idle") }
SearchFailed ==
    /\ error' = "noHospitalsFound"
    /\ stage' = "idle"
    /\ pc' = "none"
    /\ search' = NoSearch

\* The AI service calls (services/geminiService): each may fail.
ClassifyFails == BOOLEAN                        \* classifyMedicalSpecialties rejects
FallbackOutcomes == {"throws", "null", "list"}  \* findNearbyHospitals
AdviceFails == BOOLEAN                          \* getEmergencyAdvice rejects

\* classifyMedicalSpecialties settles; on success the advice request is fired
ClassifySettles ==
    /\ pc = "classify"
    /\ op' = "classify"
    /\ \E n \in 0..1, throws \in ClassifyFails :
         IF throws
         THEN /\ SearchFailed
              /\ UNCHANGED <<keywords, adviceInFlight, calls>>
         ELSE /\ keywords' = n
              /\ adviceInFlight' = adviceInFlight \cup {"current"}
              /\ pc' = "proxy"
              /\ search' = [search EXCEPT !.kw = (n > 0)]
              /\ calls' = FetchProxy(calls, search)
              /\ UNCHANGED <<stage, error>>
    /\ UNCHANGED <<variant, srv, tabs, now, provVars, ret, hookVars, hospitals, problem,
                   showPlanModal, advice>>

\* (data?.results || []).slice(0, 10).map(...): at most SliceLimit hospitals
SliceLimit == 10
MapResults(n) == [src |-> "proxy", n |-> IF n < SliceLimit THEN n ELSE SliceLimit]

\* the sizes of the result list a lookup can answer with
ResultSizes == 0..MaxResults \cup {SliceLimit + 1}

\* setHospitals(results); incrementNearbyUsage(); finally { setStage("idle") }
SearchSucceeded(results) ==
    /\ hospitals' = results
    /\ HCommit(incrementNearbyUsage(hState))
    /\ stage' = "idle"
    /\ pc' = "none"
    /\ search' = NoSearch

\* the primary lookup without its own try/catch: a throwing fetch ends the search
ProxySettles_noInnerCatch ==
    /\ pc = "proxy"
    /\ op' = "proxy"
    /\ \E outcome \in {"throws", "notOk", "badJson", "ok"}, n \in ResultSizes :
         LET results == IF outcome = "ok" THEN MapResults(n) ELSE NoHospitals
             settled == [calls EXCEPT !.primary = outcome,
                                      !.primaryN = IF outcome = "ok" THEN n ELSE 0]
         IN  IF outcome \in {"throws", "badJson"}
             THEN /\ SearchFailed
                  /\ calls' = Returned(settled)
                  /\ UNCHANGED <<hookVars, hospitals>>
             ELSE IF results.n = 0
             THEN /\ pc' = "fallback"
                  /\ calls' = CallFallback(settled, search)
                  /\ UNCHANGED <<hookVars, stage, hospitals, search, error>>
             ELSE /\ SearchSucceeded(results)
                  /\ calls' = Returned(settled)
                  /\ UNCHANGED <<hMounted, error>>
    /\ UNCHANGED <<variant, srv, tabs, now, provVars, ret, problem, keywords,
                   showPlanModal, advice, adviceInFlight>>

\* the primary lookup falling back only when it failed, storing an empty answer
ProxySettles_noFallbackOnEmpty ==
    /\ pc = "proxy"
    /\ op' = "proxy"
    /\ \E outcome \in {"throws", "notOk", "badJson", "ok"}, n \in ResultSizes :
         LET results == IF outcome = "ok" THEN MapResults(n) ELSE NoHospitals
             settled == [calls EXCEPT !.primary = outcome,
                                      !.primaryN = IF outcome = "ok" THEN n ELSE 0]
         IN  IF outcome # "ok"
             THEN /\ pc' = "fallback"
                  /\ calls' = CallFallback(settled, search)
                  /\ UNCHANGED <<hookVars, stage, hospitals, search>>
             ELSE /\ SearchSucceeded(results)
                  /\ calls' = Returned(settled)
                  /\ UNCHANGED hMounted
    /\ UNCHANGED <<variant, srv, tabs, now, provVars, ret, error, problem, keywords,
                   showPlanModal, advice, adviceInFlight>>

\* the proxy request settles: the fetch throws, answers with a non-success status,
\* its body is no JSON, or it carries n results
ProxySettles ==
    /\ pc = "proxy"
    /\ op' = "proxy"
    /\ \E outcome \in {"throws", "notOk", "badJson", "ok"}, n \in ResultSizes :
         LET results == IF outcome = "ok" THEN MapResults(n) ELSE NoHospitals
             settled == [calls EXCEPT !.primary = outcome,
                                      !.primaryN = IF outcome = "ok" THEN n ELSE 0]
         IN  IF results.n = 0
             THEN /\ pc' = "fallback"
                  /\ calls' = CallFallback(settled, search)
                  /\ UNCHANGED <<hookVars, stage, hospitals, search>>
             ELSE /\ SearchSucceeded(results)
                  /\ calls' = Returned(settled)
                  /\ UNCHANGED hMounted
    /\ UNCHANGED <<variant, srv, tabs, now, provVars, ret, error, problem, keywords,
                   showPlanModal, advice, adviceInFlight>>

\* the use recorded in the finally block: a failed search is counted too
FallbackSettles_countsFailure ==
    /\ pc = "fallback"
    /\ op' = "fallback"
    /\ \E outcome \in FallbackOutcomes, n \in ResultSizes :
         /\ calls' = Returned([calls EXCEPT
                                   !.secondary = outcome,
                                   !.secondaryN = IF outcome = "list" THEN n ELSE 0])
         /\ IF outcome = "throws"
            THEN /\ SearchFailed
                 /\ HCommit(incrementNearbyUsage(hState))
                 /\ UNCHANGED <<hMounted, hospitals>>
            ELSE /\ SearchSucceeded([src |-> "ai",
                                     n |-> IF outcome = "list" THEN n ELSE 0])
                 /\ UNCHANGED <<hMounted, error>>
    /\ UNCHANGED <<variant, srv, tabs, now, provVars, ret, problem, keywords, showPlanModal,
                   advice, adviceInFlight>>

\* the fetch stage without its finally: a throwing fallback leaves the stage as it is
FallbackSettles_noFinally ==
    /\ pc = "fallback"
    /\ op' = "fallback"
    /\ \E outcome \in FallbackOutcomes, n \in ResultSizes :
         /\ calls' = Returned([calls EXCEPT
                                   !.secondary = outcome,
                                   !.secondaryN = IF outcome = "list" THEN n ELSE 0])
         /\ IF outcome = "throws"
            THEN /\ error' = "noHospitalsFound"
                 /\ pc' = "none"
                 /\ search' = NoSearch
                 /\ UNCHANGED <<hookVars, hospitals, stage>>
            ELSE /\ SearchSucceeded([src |-> "ai",
                                     n |-> IF outcome = "list" THEN n ELSE 0])
                 /\ UNCHANGED <<hMounted, error>>
    /\ UNCHANGED <<variant, srv, tabs, now, provVars, ret, problem, keywords, showPlanModal,
                   advice, adviceInFlight>>

\* findNearbyHospitals settles: it throws, or returns null or a list
FallbackSettles ==
    /\ pc = "fallback"
    /\ op' = "fallback"
    /\ \E outcome \in FallbackOutcomes, n \in ResultSizes :
         /\ calls' = Returned([calls EXCEPT
                                   !.secondary = outcome,
                                   !.secondaryN = IF outcome = "list" THEN n ELSE 0])
         /\ IF outcome = "throws"
            THEN /\ SearchFailed
                 /\ UNCHANGED <<hookVars, hospitals>>
            ELSE /\ SearchSucceeded([src |-> "ai",
                                     n |-> IF outcome = "list" THEN n ELSE 0])
                 /\ UNCHANGED <<hMounted, error>>
    /\ UNCHANGED <<variant, srv, tabs, now, provVars, ret, problem, keywords, showPlanModal,
                   advice, adviceInFlight>>

\* the advice callback with a staleness guard: the answer to an earlier search is
\* dropped
AdviceSettles_dropsStale ==
    /\ \E a \in adviceInFlight, rejects \in AdviceFails :
         /\ adviceInFlight' = adviceInFlight \ {a}
         /\ advice' = IF rejects \/ a = "earlier" THEN advice ELSE a
         /\ op' = IF rejects THEN "adviceRejected" ELSE "advice"
    /\ UNCHANGED <<variant, srv, tabs, now, provVars, ret, hookVars, stage, error, hospitals,
                   problem, keywords, showPlanModal, pc, search, calls>>

\* getEmergencyAdvice(...).then((adv) => setAdvice(adv)); a rejection sets nothing
AdviceSettles ==
    /\ \E a \in adviceInFlight, rejects \in AdviceFails :
         /\ adviceInFlight' = adviceInFlight \ {a}
         /\ advice' = IF rejects THEN advice ELSE a
         /\ op' = IF rejects THEN "adviceRejected" ELSE "advice"
    /\ UNCHANGED <<variant, srv, tabs, now, provVars, ret, hookVars, stage, error, hospitals,
                   problem, keywords, showPlanModal, pc, search, calls>>


(***************************************************************************)
(* Proxy server (src/server/server.js).  A request is followed from its    *)
(* arrival to its response; the handlers of several requests interleave at *)
(* the await.                                                              *)
(***************************************************************************)
\* req.query.lat / req.query.lon: undefined, "" or a non-empty string
QueryValues == {"missing", "empty", "value"}
\* req.query.keyword: undefined, "", a non-empty string, or an array (?keyword=a&keyword=b)
KeywordValues == {"missing", "empty", "text", "list"}

\* !lat
Falsy(q) == q \in {"missing", "empty"}

\* JavaScript values a body carries: a JSON document, or a string
JsonValue(name) == [str |-> FALSE, v |-> name]
JsString(text) == [str |-> TRUE, v |-> text]

\* the text of a body: JSON as the upstream formats it, JSON as JSON.stringify
\* formats it, or text that is no JSON
PrettyJson(v) == [fmt |-> "pretty", val |-> v]
CompactJson(v) == [fmt |-> "compact", val |-> v]
PlainText(text) == [fmt |-> "text", val |-> JsString(text)]
NoBody == [fmt |-> "none", val |-> JsString("")]

\* what the places API answers a 2xx with
UpstreamBodies ==
    {PrettyJson(JsonValue(v)) : v \in {"results", "zeroResults", "requestDenied"}}
        \cup {PlainText("html")}

\* axios: the body parsed as JSON when it parses, the text itself otherwise
AxiosData(body) == body.val

\* res.json(data): status 200 unless set, the body JSON.stringify(data)
ResJson(status, data) == [status |-> status, body |-> CompactJson(data)]

NewRequest ==
    [pc |-> "new", lat |-> "missing", lon |-> "missing",
     upstream |-> 0, upstreamKeyword |-> FALSE, got |-> "none", gotBody |-> NoBody,
     sent |-> <<>>]

\* the handler, from the arrival of a request to its first await or its response
SrvReceive_lonUnchecked ==
    /\ variant = "server"
    /\ \E i \in DOMAIN srv, lat \in QueryValues, lon \in QueryValues,
          keyword \in KeywordValues :
         /\ srv[i].pc = "new"
         /\ LET r == [srv[i] EXCEPT !.lat = lat, !.lon = lon]
            IN  IF Falsy(lat)
                THEN srv' = [srv EXCEPT ![i] =
                        [r EXCEPT !.pc = "done",
                                  !.sent = Append(@, ResJson(400,
                                              JsonValue("lat and lon are required")))]]
                ELSE srv' = [srv EXCEPT ![i] =
                        [r EXCEPT !.pc = "upstream",
                                  !.upstream = @ + 1,
                                  !.upstreamKeyword = (keyword = "text")]]
    /\ op' = "request"
    /\ UNCHANGED <<variant, tabs, now, provVars, hookVars, nearbyVars, ret>>

SrvReceive ==
    /\ variant = "server"
    /\ \E i \in DOMAIN srv, lat \in QueryValues, lon \in QueryValues,
          keyword \in KeywordValues :
         /\ srv[i].pc = "new"
         /\ LET r == [srv[i] EXCEPT !.lat = lat, !.lon = lon]
            IN  IF Falsy(lat) \/ Falsy(lon)
                THEN srv' = [srv EXCEPT ![i] =
                        [r EXCEPT !.pc = "done",
                                  !.sent = Append(@, ResJson(400,
                                              JsonValue("lat and lon are required")))]]
                ELSE \* keyword && typeof keyword === 'string'
                     srv' = [srv EXCEPT ![i] =
                        [r EXCEPT !.pc = "upstream",
                                  !.upstream = @ + 1,
                                  !.upstreamKeyword = (keyword = "text")]]
    /\ op' = "request"
    /\ UNCHANGED <<variant, tabs, now, provVars, hookVars, nearbyVars, ret>>

\* axios.get settles: it rejects (network error, non-2xx status), or resolves
SrvUpstreamSettles ==
    /\ variant = "server"
    /\ \E i \in DOMAIN srv, rejects \in BOOLEAN, body \in UpstreamBodies :
         /\ srv[i].pc = "upstream"
         /\ srv' = [srv EXCEPT ![i] =
                IF rejects
                THEN [@ EXCEPT !.pc = "done", !.got = "rejected",
                               !.sent = Append(@, ResJson(500,
                                           JsonValue("Failed to fetch nearby hospitals")))]
                ELSE [@ EXCEPT !.pc = "done", !.got = "resolved", !.gotBody = body,
                               !.sent = Append(@, ResJson(200, AxiosData(body)))]]
    /\ op' = "upstream"
    /\ UNCHANGED <<variant, tabs, now, provVars, hookVars, nearbyVars, ret>>

(***************************************************************************)
(* Two tabs.  Each tab has its own React state; localStorage is shared.    *)
(* Inside a tab React runs the effects of a render before the next event,  *)
(* but the other tab's events can fall anywhere in between.  A tab is      *)
(*   closed;  mounting: rendered once, effects pending (the provider's     *)
(*   load effect reads the item only then);  dirty: state set, the save    *)
(*   effect pending;  clean: the save effect has run.                      *)
(* saved is the record the item held before the tabs were opened.          *)
(***************************************************************************)
Tabs == {"A", "B"}
ClosedTab == [phase |-> "closed", state |-> EmptyObject, loaded |-> EmptyObject,
              recorded |-> 0]

TabStore == IF variant = "hookTabs" THEN hStore ELSE pStore
WriteTabStore(item) ==
    IF variant = "hookTabs" THEN hStore' = item /\ UNCHANGED pStore
                            ELSE pStore' = item /\ UNCHANGED hStore

\* a tab opens the page: the first render.  The hook's initialiser reads the item;
\* the provider starts from its initial state
TabMount ==
    /\ variant \in {"providerTabs", "hookTabs"}
    /\ \E i \in Tabs :
         /\ tabs[i].phase = "closed"
         /\ tabs' = [tabs EXCEPT ![i] =
                IF variant = "hookTabs"
                THEN [phase |-> "dirty", state |-> HookInitialState(hStore),
                      loaded |-> HookInitialState(hStore), recorded |-> 0]
                ELSE [phase |-> "mounting", state |-> InitialSubscriptionState(now),
                      loaded |-> EmptyObject, recorded |-> 0]]
    /\ op' = "tabMount"
    /\ UNCHANGED <<variant, srv, now, provVars, hookVars, nearbyVars, ret>>

\* the effects of a tab's last render.  After the provider's first render: the load
\* effect reads the item and sets the state, the save effect writes the initial
\* state.  Otherwise: the save effect writes the tab's state
TabEffects ==
    /\ variant \in {"providerTabs", "hookTabs"}
    /\ \E i \in Tabs :
         \/ /\ tabs[i].phase = "mounting"
            /\ LET ld == LoadSubscription(pStore, tabs[i].state, now)
                   sets == Truthy(pStore) /\ ~ld.removed
               IN  /\ tabs' = [tabs EXCEPT ![i].state = ld.state,
                                           ![i].loaded = ld.state,
                                           ![i].phase = IF sets THEN "dirty" ELSE "clean"]
                   /\ WriteTabStore(SaveSubscription(tabs[i].state))
         \/ /\ tabs[i].phase = "dirty"
            /\ tabs' = [tabs EXCEPT ![i].phase = "clean"]
            /\ WriteTabStore(IF variant = "hookTabs" THEN HookSave(tabs[i].state)
                             ELSE SaveSubscription(tabs[i].state))
    /\ op' = "tabEffects"
    /\ UNCHANGED <<variant, srv, now, pMounted, pState, pCanUse, pRemaining, run,
                   hMounted, hState, saved, nearbyVars, ret>>

\* a use recorded from the store's record instead of the tab's own state
TabUse_readsStore ==
    /\ variant \in {"providerTabs", "hookTabs"}
    /\ \E i \in Tabs :
         /\ tabs[i].phase = "clean"
         /\ tabs[i].recorded < MaxTabUses
         /\ IF variant = "hookTabs"
            THEN /\ HookCanUseNearby(tabs[i].state)
                 /\ tabs[i].state.nearbyUsageCount < MaxCount
                 /\ tabs' = [tabs EXCEPT
                        ![i].state = incrementNearbyUsage(HookInitialState(hStore)),
                        ![i].phase = "dirty",
                        ![i].recorded = @ + 1]
            ELSE LET current == LoadSubscription(pStore, tabs[i].state, now).state
                     use == useNearbyService(current, current, now)
                 IN  /\ use.set
                     /\ tabs' = [tabs EXCEPT ![i].state = use.next,
                                             ![i].phase = "dirty",
                                             ![i].recorded = @ + 1]
    /\ op' = "tabUse"
    /\ UNCHANGED <<variant, srv, now, provVars, hookVars, nearbyVars, ret>>

\* a tab records a use: incrementNearbyUsage after a search the gate let through
\* (hook), useNearbyService (provider)
TabUse ==
    /\ variant \in {"providerTabs", "hookTabs"}
    /\ \E i \in Tabs :
         /\ tabs[i].phase = "clean"
         /\ tabs[i].recorded < MaxTabUses
         /\ IF variant = "hookTabs"
            THEN /\ HookCanUseNearby(tabs[i].state)
                 /\ tabs[i].state.nearbyUsageCount < MaxCount
                 /\ tabs' = [tabs EXCEPT
                        ![i].state = incrementNearbyUsage(tabs[i].state),
                        ![i].phase = "dirty",
                        ![i].recorded = @ + 1]
            ELSE LET use == useNearbyService(tabs[i].state, tabs[i].state, now)
                 IN  /\ use.set
                     /\ tabs' = [tabs EXCEPT ![i].state = use.next,
                                             ![i].phase = "dirty",
                                             ![i].recorded = @ + 1]
    /\ op' = "tabUse"
    /\ UNCHANGED <<variant, srv, now, provVars, hookVars, nearbyVars, ret>>

Init ==
    /\ variant \in {"provider", "providerBatch", "hook", "server", "providerTabs",
                   "hookTabs"}
    /\ saved \in {JsNull} \cup
                 (IF variant \in ProviderVariants \cup {"providerTabs"}
                  THEN ProviderSavedStates
                  ELSE IF variant \in {"hook", "hookTabs"} THEN HookSavedStates
                  ELSE {})
    /\ now = StartNow
    /\ pMounted = FALSE
    /\ pState = EmptyObject
    /\ pCanUse = FALSE
    /\ pRemaining = NaN
    /\ pStore \in IF variant \notin ProviderVariants \cup {"providerTabs"} THEN {Absent}
                  ELSE IF saved = JsNull
                       THEN (IF variant = "provider" THEN ForeignItems ELSE {Absent})
                  ELSE {SaveSubscription(saved)}
    /\ op = "init"
    /\ ret = FALSE
    /\ run = RunOff
    /\ hMounted = FALSE
    /\ hState = EmptyObject
    /\ hStore \in IF variant \notin {"hook", "hookTabs"} THEN {Absent}
                  ELSE IF saved = JsNull
                       THEN (IF variant = "hook" THEN ForeignItems ELSE {Absent})
                  ELSE {HookSave(saved)}
    /\ stage = "idle"
    /\ error = ""
    /\ hospitals = NoHospitals
    /\ problem = FALSE
    /\ keywords = 0
    /\ showPlanModal = FALSE
    /\ advice = "null"
    /\ adviceInFlight = {}
    /\ pc = "none"
    /\ search = NoSearch
    /\ calls = NoCalls
    /\ srv = [i \in 1..NumRequests |-> NewRequest]
    /\ tabs = [i \in Tabs |-> ClosedTab]

Next ==
    \/ PMount
    \/ PUnmount
    \/ UseNearbyService
    \/ UseNearbyServiceTwice
    \/ ResetUsageCount
    \/ UpgradeToPro
    \/ DowngradeToBasic
    \/ Tick
    \/ HMount
    \/ HUnmount
    \/ UpdatePlan
    \/ SetProblem
    \/ SetShowPlanModal
    \/ HandleFind
    \/ GeoSuccess
    \/ GeoError
    \/ ClassifySettles
    \/ ProxySettles
    \/ FallbackSettles
    \/ AdviceSettles
    \/ SrvReceive
    \/ SrvUpstreamSettles
    \/ TabMount
    \/ TabEffects
    \/ TabUse

Spec == Init /\ [][Next]_vars

\* Every geolocation request calls one of its callbacks and every awaited request
\* settles (the advice request, which nothing awaits, may stay pending).
Settling ==
    /\ WF_vars(GeoSuccess \/ GeoError)
    /\ WF_vars(ClassifySettles)
    /\ WF_vars(ProxySettles)
    /\ WF_vars(FallbackSettles)

LiveSpec == Spec /\ Settling

(***************************************************************************)
(* The claims.  In the provider variant "the state" is subscriptionState,  *)
(* canUse is the memoised canUseNearby the context exposes, consumeUse is  *)
(* useNearbyService and remainingUses is the memoised nearbyUsageRemaining.*)
(***************************************************************************)
ProviderStep(name) == variant = "provider" /\ pMounted /\ pMounted' /\ op' = name

\* plan = basic and usageCount < limit
BasicBelowLimit ==
    /\ variant = "provider" /\ pMounted
    /\ PlanOf(pState) = "basic"
    /\ Has(pState, "nearbyUsageCount") /\ pState.nearbyUsageCount < NEARBY_USAGE_LIMIT

\* C1 as stated: in every state with plan = basic and usageCount < limit, canUse is
\* true and consumeUse returns true and leaves usageCount exactly one higher than
\* before, whatever now is relative to usageResetAt.
C1_AsStated ==
    [][BasicBelowLimit =>
          /\ pCanUse
          /\ ProviderStep("useNearbyService") =>
                /\ ret'
                /\ pState'.nearbyUsageCount = pState.nearbyUsageCount + 1]_vars

\* C1 amended: in every state with plan = basic and usageCount < limit, canUse is
\* true and consumeUse returns true; it leaves usageCount exactly one higher than
\* before (and usageResetAt as it was) unless now >= usageResetAt, and then it sets
\* usageCount to 1 and usageResetAt to the first instant of the next month.  The plan
\* stays basic and the new state is what the store holds.
C1_UseBelowLimit ==
    [][BasicBelowLimit =>
          /\ pCanUse
          /\ ProviderStep("useNearbyService") =>
                /\ ret'
                /\ PlanOf(pState') = "basic"
                /\ pStore' = SaveSubscription(pState')
                /\ IF isUsageExpired(ResetDateOf(pState), now)
                   THEN /\ pState'.nearbyUsageCount = 1
                        /\ ResetDateOf(pState') = getMonthResetDate(now)
                   ELSE /\ pState'.nearbyUsageCount = pState.nearbyUsageCount + 1
                        /\ ResetDateOf(pState') = ResetDateOf(pState)]_vars

\* a use that was allowed inside the period and left the counter at 3
C1_Witness ==
    /\ variant = "provider" /\ pMounted
    /\ op = "useNearbyService" /\ ret
    /\ PlanOf(pState) = "basic"
    /\ pState.nearbyUsageCount = 3
    /\ ~isUsageExpired(ResetDateOf(pState), now)
    /\ run.on /\ run.n = 3

\* C2: in every state with plan = basic, usageCount = limit and now < usageResetAt,
\* canUse is false and consumeUse returns false and leaves plan, usageCount and
\* usageResetAt (and the stored record) unchanged.
C2_AtLimitRefused ==
    [][(/\ variant = "provider" /\ pMounted
        /\ PlanOf(pState) = "basic"
        /\ Has(pState, "nearbyUsageCount")
        /\ pState.nearbyUsageCount = NEARBY_USAGE_LIMIT
        /\ Has(pState, "nearbyUsageResetDate")
        /\ now < DateParse(pState.nearbyUsageResetDate))
       => /\ ~pCanUse
          /\ ProviderStep("useNearbyService") =>
                /\ ~ret'
                /\ pState' = pState
                /\ pStore' = pStore]_vars

\* a use that was refused at the limit, inside the period
C2_Witness ==
    /\ variant = "provider" /\ pMounted
    /\ op = "useNearbyService" /\ ~ret
    /\ PlanOf(pState) = "basic"
    /\ pState.nearbyUsageCount = NEARBY_USAGE_LIMIT
    /\ Has(pState, "nearbyUsageResetDate")
    /\ now < DateParse(pState.nearbyUsageResetDate)

\* now >= usageResetAt
PeriodOver ==
    /\ variant = "provider" /\ pMounted
    /\ Has(pState, "nearbyUsageResetDate")
    /\ now >= DateParse(pState.nearbyUsageResetDate)

\* C3 as stated: in every state with now >= usageResetAt, whatever the stored
\* usageCount, canUse is true, and the next consumeUse sets usageCount to 1 and
\* usageResetAt to the first instant of the month after the evaluation time.  (The
\* second half is stated for plan = basic: for plan = pro consumeUse changes nothing
\* by contract, C4.)
C3_AsStated ==
    [][PeriodOver =>
          /\ pCanUse
          /\ (ProviderStep("useNearbyService") /\ PlanOf(pState) = "basic") =>
                /\ ret'
                /\ pState'.nearbyUsageCount = 1
                /\ ResetDateOf(pState') = getMonthResetDate(now)]_vars

\* C4 as stated: in every state with plan = pro, canUse is true whatever usageCount
\* is, and no gated use (consumeUse in the provider, a completed hospital search in
\* the Nearby component) changes usageCount.
C4_AsStated ==
    [][/\ (variant = "provider" /\ pMounted /\ PlanOf(pState) = "pro") =>
             /\ pCanUse
             /\ ProviderStep("useNearbyService") =>
                   (ret' /\ pState'.nearbyUsageCount = pState.nearbyUsageCount)
       /\ (variant = "hook" /\ hMounted /\ PlanOf(hState) = "pro") =>
             /\ HookCanUseNearby(hState)
             /\ (hMounted' /\ op' \in {"proxy", "fallback"}) =>
                   hState'.nearbyUsageCount = hState.nearbyUsageCount]_vars

Min(a, b) == IF a < b THEN a ELSE b

\* C5: starting from a fresh state {plan: basic, usageCount: 0} and staying inside
\* one usage period, the first five consumeUse calls return true (and each is
\* counted), the sixth and later ones return false, and remainingUses is then 0.
\* run.n is the number of calls made in a row since the state was fresh, run.ok the
\* number of them that returned true.
C5_FiveThenRefused ==
    (variant = "provider" /\ pMounted /\ run.on) =>
        /\ run.ok = Min(run.n, NEARBY_USAGE_LIMIT)
        /\ pState.nearbyUsageCount = run.ok
        /\ (op = "useNearbyService" /\ run.n \in 1..NEARBY_USAGE_LIMIT) => ret
        /\ run.n > NEARBY_USAGE_LIMIT =>
              /\ op = "useNearbyService" => ~ret
              /\ pRemaining = Num(0)
              /\ ~pCanUse

\* the sixth call in a row has just returned
C5_Witness ==
    /\ variant = "provider" /\ pMounted
    /\ run.on /\ run.n = NEARBY_USAGE_LIMIT + 1
    /\ op = "useNearbyService" /\ ~ret
    /\ pRemaining = Num(0)

ProviderMounts == variant = "provider" /\ ~pMounted /\ pMounted'
HookMounts == variant = "hook" /\ ~hMounted /\ hMounted'
HookStep == variant = "hook" /\ hMounted /\ hMounted'

Malformed(item, required) ==
    \/ ~Truthy(item)
    \/ ParseThrows(item)
    \/ JSONparse(item).kind # "object"
    \/ ~(required \subseteq JSONparse(item).has)

\* C7 as stated: when the persisted record is absent or malformed, loading never
\* fails and the state in memory is the default state {plan: basic, usageCount: 0,
\* usageResetAt: start of next month} (the hook's default has the limit instead of a
\* reset date).
C7_AsStated ==
    [][/\ (/\ ProviderMounts
           /\ Malformed(pStore, {"plan", "nearbyUsageCount", "nearbyUsageResetDate"}))
          => pState' = InitialSubscriptionState(now)
       /\ (HookMounts /\ Malformed(hStore, {"plan", "nearbyUsageCount"}))
          => hState' = DEFAULT_SUBSCRIPTION_STATE]_vars

\* C8 as stated: every plan change (updatePlan, upgradeToPro, downgradeToBasic) sets
\* plan to the requested value, resets usageCount to 0 and, where the state has one,
\* recomputes usageResetAt.
C8_AsStated ==
    [][/\ ProviderStep("upgradeToPro") =>
             /\ PlanOf(pState') = "pro"
             /\ pState'.nearbyUsageCount = 0
             /\ ResetDateOf(pState') = getMonthResetDate(now)
       /\ ProviderStep("downgradeToBasic") =>
             /\ PlanOf(pState') = "basic"
             /\ pState'.nearbyUsageCount = 0
             /\ ResetDateOf(pState') = getMonthResetDate(now)
       /\ (HookStep /\ op' = "updatePlan(pro)") =>
             (PlanOf(hState') = "pro" /\ hState'.nearbyUsageCount = 0)
       /\ (HookStep /\ op' = "updatePlan(basic)") =>
             (PlanOf(hState') = "basic" /\ hState'.nearbyUsageCount = 0)]_vars

\* C8 amended: every plan change sets plan to the requested value.  updatePlan (the
\* hook) also resets usageCount to 0; the hook's state has no usageResetAt.
\* upgradeToPro and downgradeToBasic (the provider) leave usageCount and usageResetAt
\* as they were.
C8_PlanChange ==
    [][/\ ProviderStep("upgradeToPro") =>
             pState' = [Spread(pState) EXCEPT !.plan = "pro", !.has = @ \cup {"plan"}]
       /\ ProviderStep("downgradeToBasic") =>
             pState' = [Spread(pState) EXCEPT !.plan = "basic", !.has = @ \cup {"plan"}]
       /\ (HookStep /\ op' \in {"updatePlan(pro)", "updatePlan(basic)"}) =>
             /\ PlanOf(hState') = (IF op' = "updatePlan(pro)" THEN "pro" ELSE "basic")
             /\ hState'.nearbyUsageCount = 0
             /\ hState'.nearbyUsageLimit = hState.nearbyUsageLimit
             /\ ~Has(hState', "nearbyUsageResetDate")
             /\ hStore' = HookSave(hState')]_vars

\* an upgrade that left three counted uses in place
C8_Witness ==
    /\ variant = "provider" /\ pMounted /\ op = "upgradeToPro"
    /\ PlanOf(pState) = "pro"
    /\ pState.nearbyUsageCount = 3
    /\ Has(pState, "nearbyUsageResetDate")

\* C9: on every step usageCount rises only through the gating operation
\* (useNearbyService in the provider, the use a completed search records in the
\* hook), and then by exactly 1; it falls only through an explicit reset (the period
\* rollover in useNearbyService or at load, resetUsageCount, updatePlan); a mount
\* loads the saved count; it is never negative.
C9_CounterMoves ==
    [][/\ (variant = "provider" /\ pMounted /\ pMounted'
           /\ Has(pState, "nearbyUsageCount")) =>
             /\ Has(pState', "nearbyUsageCount")
             /\ pState'.nearbyUsageCount >= 0
             /\ pState'.nearbyUsageCount > pState.nearbyUsageCount =>
                   /\ op' = "useNearbyService" /\ ret'
                   /\ pState'.nearbyUsageCount = pState.nearbyUsageCount + 1
             /\ pState'.nearbyUsageCount < pState.nearbyUsageCount =>
                   \/ op' = "resetUsageCount" /\ pState'.nearbyUsageCount = 0
                   \/ /\ op' = "useNearbyService" /\ ret'
                      /\ isUsageExpired(ResetDateOf(pState), now)
                      /\ pState'.nearbyUsageCount = 1
       /\ (ProviderMounts /\ saved # JsNull /\ Has(saved, "nearbyUsageCount")) =>
             \/ pState'.nearbyUsageCount = saved.nearbyUsageCount
             \/ /\ isUsageExpired(ResetDateOf(saved), now)
                /\ pState'.nearbyUsageCount = 0
       /\ HookStep =>
             /\ hState'.nearbyUsageCount >= 0
             /\ hState'.nearbyUsageCount > hState.nearbyUsageCount =>
                   /\ op' \in {"proxy", "fallback"}
                   /\ hState'.nearbyUsageCount = hState.nearbyUsageCount + 1
             /\ hState'.nearbyUsageCount < hState.nearbyUsageCount =>
                   /\ op' \in {"updatePlan(pro)", "updatePlan(basic)"}
                   /\ hState'.nearbyUsageCount = 0
       /\ (HookMounts /\ saved # JsNull) =>
             hState'.nearbyUsageCount = saved.nearbyUsageCount]_vars

\* a search whose proxy lookup found hospitals has recorded the third use
C9_Witness ==
    /\ variant = "hook" /\ hMounted /\ op = "proxy"
    /\ stage = "idle" /\ hospitals.src = "proxy" /\ hospitals.n > 0
    /\ hState.nearbyUsageCount = 3

Max(a, b) == IF a > b THEN a ELSE b

\* C10 as stated: remainingUses is the unbounded sentinel for plan = pro and, for
\* plan = basic, max(0, limit - effectiveUsageCount), where effectiveUsageCount is 0
\* when now >= usageResetAt and the stored usageCount otherwise; for basic it is 0
\* exactly when canUse is false.
C10_AsStated ==
    /\ (/\ variant = "provider" /\ pMounted
        /\ pState.kind = "object"
        /\ pState.has = {"plan", "nearbyUsageCount", "nearbyUsageResetDate"}) =>
          LET effective == IF now >= DateParse(pState.nearbyUsageResetDate)
                           THEN 0 ELSE pState.nearbyUsageCount
          IN  /\ pState.plan = "pro" => pRemaining = Infinity
              /\ pState.plan = "basic" =>
                    /\ pRemaining = Num(Max(0, NEARBY_USAGE_LIMIT - effective))
                    /\ (pRemaining = Num(0)) <=> ~pCanUse
    /\ (variant = "hook" /\ hMounted) =>
          /\ hState.plan = "pro" => getRemainingNearbyUses(hState) = Infinity
          /\ hState.plan = "basic" =>
                /\ getRemainingNearbyUses(hState)
                     = Num(Max(0, hState.nearbyUsageLimit - hState.nearbyUsageCount))
                /\ (getRemainingNearbyUses(hState) = Num(0)) <=> ~HookCanUseNearby(hState)

(***************************************************************************)
(* The search workflow of the Nearby component.  The gate is the hook's    *)
(* canUseNearby, as the render that built the handler saw the state.       *)
(***************************************************************************)
GatePasses ==
    \/ PlanOf(hState) = "pro"
    \/ hState.nearbyUsageCount < hState.nearbyUsageLimit

NearbyStep == variant = "hook" /\ hMounted /\ hMounted'

C13_FallbackOnFailure ==
    (variant = "hook" /\ calls.primary \in {"throws", "notOk"}) =>
        /\ calls.fallback = 1
        /\ calls.fallbackAt = calls.proxyAt
        /\ calls.secondary \in {"null", "list"} =>
              /\ stage = "idle"
              /\ pc = "none"
              /\ error = ""
              /\ hospitals = [src |-> "ai", n |-> calls.secondaryN]

\* the fetch threw and the fallback's list is shown
C13_Witness ==
    /\ variant = "hook" /\ hMounted /\ op = "fallback"
    /\ calls.primary = "throws" /\ calls.secondary = "list" /\ calls.secondaryN >= 1
    /\ stage = "idle" /\ error = "" /\ hospitals.src = "ai"

(***************************************************************************)
(* The proxy server.                                                       *)
(***************************************************************************)
\* JSON.parse of a body's text
ParseBody(body) == body.val
IsJson(body) == body.fmt \in {"pretty", "compact"} /\ ~body.val.str

\* C14: a request is answered at most once, and exactly once when its handler is
\* through: with 400 and no upstream call when lat or lon is missing (or empty),
\* with 500 when the upstream call rejected, and otherwise with 200 and a body
\* that parses to the JSON document the upstream answered with.
C14_OneResponse ==
    variant = "server" =>
        \A i \in DOMAIN srv :
            LET r == srv[i]
            IN  /\ Len(r.sent) <= 1
                /\ (r.pc = "done") <=> (Len(r.sent) = 1)
                /\ r.upstream <= 1
                /\ r.pc = "done" =>
                      /\ (Falsy(r.lat) \/ Falsy(r.lon)) =>
                            r.sent[1].status = 400 /\ r.upstream = 0
                      /\ ~(Falsy(r.lat) \/ Falsy(r.lon)) =>
                            /\ r.upstream = 1
                            /\ r.got = "rejected" => r.sent[1].status = 500
                            /\ (r.got = "resolved" /\ IsJson(r.gotBody)) =>
                                  /\ r.sent[1].status = 200
                                  /\ IsJson(r.sent[1].body)
                                  /\ ParseBody(r.sent[1].body) = ParseBody(r.gotBody)

\* one request refused for its missing lon, another answered with the upstream's
\* document
C14_Witness ==
    /\ variant = "server"
    /\ \E i, j \in DOMAIN srv :
         /\ srv[i].pc = "done" /\ srv[i].lat = "value" /\ srv[i].lon = "missing"
         /\ srv[i].sent[1].status = 400
         /\ srv[j].pc = "done" /\ srv[j].got = "resolved"
         /\ srv[j].sent[1].status = 200
         /\ srv[j].gotBody = PrettyJson(JsonValue("results"))

\* C15: every search that leaves idle returns to idle, provided its geolocation
\* callback fires and its awaited requests settle; stage never goes from idle
\* straight to fetching, nor from fetching back to locating.
C15_BackToIdle ==
    /\ (stage # "idle") ~> (stage = "idle")
    /\ [][ /\ ~(stage = "idle" /\ stage' = "fetching")
           /\ ~(stage = "fetching" /\ stage' = "locating") ]_vars

\* a search is in its fetch stage, waiting for the fallback lookup
C15_Witness ==
    /\ variant = "hook" /\ hMounted /\ stage = "fetching" /\ pc = "fallback"

\* C16: in the Nearby component (the use is recorded after the search) the counter
\* rises only in the step that stores the hospital list of the running search, by
\* one; every search that stores its list is counted; a search that ends in the
\* geolocation error callback or in the catch block is not counted.
C16_CountedWhenStored ==
    [][ NearbyStep =>
          LET counted == hState'.nearbyUsageCount = hState.nearbyUsageCount + 1
              stores == hospitals' # hospitals /\ hospitals'.src # "none"
          IN  /\ hState'.nearbyUsageCount > hState.nearbyUsageCount =>
                    /\ counted
                    /\ stores
                    /\ stage = "fetching" /\ stage' = "idle"
                    /\ op' \in {"proxy", "fallback"}
              /\ stores => counted
              /\ (stage # "idle" /\ stage' = "idle" /\ error' # "") =>
                    /\ hState' = hState
                    /\ hospitals' = NoHospitals
              /\ op' = "geoError" => hState' = hState
      ]_vars

\* the first search of a fresh record stored the fallback's list and was counted
C16_Witness ==
    /\ variant = "hook" /\ hMounted /\ op = "fallback"
    /\ stage = "idle" /\ hospitals.src = "ai" /\ calls.secondary = "list"
    /\ hState.nearbyUsageCount = 1 /\ hStore = HookSave(hState)

\* C17: the generic message is shown only when both lookups of the search have
\* been tried and the last one failed; a failing classification, proxy or fallback
\* call otherwise falls through to the next strategy, and the search ends idle.
C17_AsStated ==
    variant = "hook" =>
        /\ error = "noHospitalsFound" =>
              /\ stage = "idle"
              /\ calls.proxy = 1 /\ calls.primary # "none"
              /\ calls.fallback = 1 /\ calls.secondary = "throws"
        /\ calls.secondary = "throws" => stage = "idle"

\* C18: an advice answer that resolves is written to the advice slot in whatever
\* stage the component is, also when it answers an earlier search; starting a
\* search neither clears the slot nor cancels a pending advice request; the
\* lookups neither wait for the advice nor touch it.
C18_AdviceUnguarded ==
    /\ [][ NearbyStep =>
             /\ op' = "advice" =>
                   \E a \in adviceInFlight :
                       /\ advice' = a
                       /\ adviceInFlight' = adviceInFlight \ {a}
                       /\ UNCHANGED <<stage, hospitals, error, pc>>
             /\ (op' = "handleFind" /\ stage' = "locating") =>
                   /\ (advice = "null") <=> (advice' = "null")
                   /\ (adviceInFlight = {}) <=> (adviceInFlight' = {})
             /\ op' \in {"proxy", "fallback"} =>
                   UNCHANGED <<advice, adviceInFlight>>
         ]_vars
    /\ [](/\ pc = "proxy" => ENABLED ProxySettles
          /\ pc = "fallback" => ENABLED FallbackSettles)

\* the hospitals of the latest search are shown with the advice of an earlier one,
\* which resolved after the latest search had finished
C18_Witness ==
    /\ variant = "hook" /\ hMounted /\ op = "advice"
    /\ advice = "earlier"
    /\ stage = "idle" /\ hospitals.src # "none" /\ calls.classify = 1

(***************************************************************************)
(* Two tabs on one localStorage item.                                      *)
(***************************************************************************)
TabsRun == variant \in {"providerTabs", "hookTabs"}
InitialCount == IF saved = JsNull THEN 0 ELSE saved.nearbyUsageCount
TotalRecorded == tabs["A"].recorded + tabs["B"].recorded
TabWrites(i) ==
    IF variant = "hookTabs" THEN HookSave(tabs[i].state)
    ELSE SaveSubscription(tabs[i].state)

\* C19: the item always holds a whole record some tab wrote (last write wins): a
\* known plan, a counter that is not negative and not above the initial one plus
\* the uses recorded; once every tab's writes are done the item is one tab's
\* state; and when both tabs loaded the same record and each recorded one use, the
\* stored counter is the loaded one plus one, not plus two.
C19_LastWriteWins ==
    TabsRun =>
        /\ \/ TabStore = Absent
           \/ /\ TabStore.kind = "json"
              /\ TabStore.val.kind = "object"
              /\ PlanOf(TabStore.val) \in {"basic", "pro"}
              /\ Has(TabStore.val, "nearbyUsageCount")
              /\ TabStore.val.nearbyUsageCount >= 0
              /\ TabStore.val.nearbyUsageCount <= InitialCount + TotalRecorded
        /\ (\A i \in Tabs : tabs[i].phase = "clean") =>
              /\ \E i \in Tabs : TabStore = TabWrites(i)
              /\ (/\ tabs["A"].loaded = tabs["B"].loaded
                  /\ tabs["A"].recorded = 1 /\ tabs["B"].recorded = 1) =>
                    TabStore.val.nearbyUsageCount
                        = tabs["A"].loaded.nearbyUsageCount + 1

\* both tabs loaded the persisted record, each recorded one use, and the item
\* counts one
C19_Witness ==
    /\ TabsRun /\ saved # JsNull
    /\ \A i \in Tabs : /\ tabs[i].phase = "clean"
                        /\ tabs[i].loaded = saved
                        /\ tabs[i].recorded = 1
    /\ TabStore.val.nearbyUsageCount = saved.nearbyUsageCount + 1

(***************************************************************************)
(* The reset date.                                                         *)
(***************************************************************************)
\* d is the first instant of the local calendar month after the one t lies in
IsNextMonthStart(d, t) ==
    /\ (d + TzOffset) % TicksPerMonth = 0
    /\ (d + TzOffset) \div TicksPerMonth = ((t + TzOffset) \div TicksPerMonth) + 1

\* the step wrote nearbyUsageResetDate: the initial state or the load-time reset at
\* a mount (the date is not the stored record's), the rollover in
\* useNearbyService, or resetUsageCount
WritesResetDate ==
    /\ variant = "provider" /\ pMounted'
    /\ Has(pState', "nearbyUsageResetDate")
    /\ \/ op' = "resetUsageCount"
       \/ /\ op' = "useNearbyService"
          /\ ResetDateOf(pState') # ResetDateOf(pState)
       \/ /\ op' = "mount"
          /\ ~(/\ pStore.kind = "json"
               /\ Has(pStore.val, "nearbyUsageResetDate")
               /\ pStore.val.nearbyUsageResetDate = ResetDateOf(pState'))

\* C20: a reset date that is written is the first instant of the next local
\* calendar month (January of the next year after December), an ISO string that
\* parses back to that instant; it is later than now, so the state written is not
\* expired at that instant.
C20_NextMonthStart ==
    [][ WritesResetDate =>
          LET iso == ResetDateOf(pState')
              d == DateParse(iso)
          IN  /\ IsNextMonthStart(d, now)
              /\ iso.month \in 1..MonthsPerYear
              /\ getMonth(now) = MonthsPerYear - 1 =>
                    getMonth(d) = 0 /\ getFullYear(d) = getFullYear(now) + 1
              /\ getMonth(now) < MonthsPerYear - 1 =>
                    getMonth(d) = getMonth(now) + 1 /\ getFullYear(d) = getFullYear(now)
              /\ d > now
              /\ ~(now >= d)
      ]_vars

\* resetUsageCount in December: the reset date is the first instant of January
C20_Witness ==
    /\ variant = "provider" /\ pMounted /\ op = "resetUsageCount"
    /\ getMonth(now) = MonthsPerYear - 1
    /\ getMonth(DateParse(ResetDateOf(pState))) = 0
    /\ getFullYear(DateParse(ResetDateOf(pState))) = getFullYear(now) + 1

(***************************************************************************)
(* The counter against the limit.  usageCount is nearbyUsageCount of the   *)
(* state a mounted provider, a mounted hook or an open tab holds.          *)
(***************************************************************************)
WithinLimit(s) ==
    (PlanOf(s) = "basic" /\ Has(s, "nearbyUsageCount")) =>
        s.nearbyUsageCount <= NEARBY_USAGE_LIMIT

ProviderWithinLimit ==
    (variant \in ProviderVariants /\ pMounted) => WithinLimit(pState)

HookWithinLimit ==
    (variant = "hook" /\ hMounted) => WithinLimit(hState)

TabsWithinLimit ==
    TabsRun => \A i \in Tabs : tabs[i].phase # "closed" => WithinLimit(tabs[i].state)

\* C21 as stated: in every reachable state with plan = basic, usageCount <= limit,
\* also when the gating call is made more than once before the component re-renders
\* and when the check and the increment are separated by the asynchronous search.
C21_AsStated ==
    /\ ProviderWithinLimit
    /\ HookWithinLimit
    /\ TabsWithinLimit

(***************************************************************************)
(* The error message and the hospital list of one Nearby component.        *)
(***************************************************************************)
NearbyMounted == variant = "hook" /\ hMounted

\* a search is in flight exactly while the stage is not idle, and then the search
\* button is disabled
OneSearchInFlight ==
    /\ (pc # "none") <=> (stage # "idle")
    /\ stage # "idle" => ~ENABLED HandleFind

\* C22: in every state of a mounted Nearby component a non-empty error message
\* implies an empty hospital list, and a search is in flight exactly while the stage
\* is not idle, when the search button is disabled.  Step by step: a handleFind that
\* starts a search empties the list and leaves the error empty unless geolocation is
\* missing; a step that sets an error stores no hospitals; a step that stores
\* hospitals leaves the error empty.
C22_ErrorMeansNoHospitals ==
    /\ [](NearbyMounted =>
            /\ error # "" => hospitals = NoHospitals
            /\ OneSearchInFlight)
    /\ [][NearbyStep =>
            /\ op' = "handleFind" =>
                  /\ stage = "idle"
                  /\ hospitals' = NoHospitals
                  /\ error' = IF stage' = "idle" THEN "unableToFetchLocation" ELSE ""
            /\ (error' # error /\ error' # "") =>
                  /\ hospitals' = NoHospitals
                  /\ stage' = "idle"
                  /\ hState' = hState
            /\ (hospitals' # hospitals /\ hospitals' # NoHospitals) =>
                  /\ error = "" /\ error' = ""
                  /\ op' \in {"proxy", "fallback"}
       ]_vars

\* a search has failed in a component that showed the hospitals of an earlier search
\* when it started: the message is shown and the list is empty
C22_Witness ==
    /\ NearbyMounted /\ op = "fallback" /\ calls.secondary = "throws"
    /\ stage = "idle" /\ error = "noHospitalsFound" /\ hospitals = NoHospitals
    /\ hState.nearbyUsageCount >= 1
====
